---- MODULE Spec2Model ----
(***************************************************************************)
(* Model of the TradingSimulator core: the simulated venue (ExchangeApi),  *)
(* the position-bounded OrderManager, the time-weighted EMA (TimeEMA) and  *)
(* the crossover strategy (EmaTradingBot), and the Simulator whose Run     *)
(* generates the ticks.                                                    *)
(*                                                                         *)
(* Numbers.  Price and Volume are doubles in the source; here they are     *)
(* integers.  Volumes and positions are counted in units of 0.5e-9, so     *)
(* that the absolute tolerance 1e-9 of isVolumeEqual is VolTol = 2 units   *)
(* and a position can be strictly inside the tolerance of a bound.         *)
(* Probabilities and draws are on the source's scale [0, 100].             *)
(*                                                                         *)
(* Times are integers in [-NsMax - 1, NsMax], the model's scale of the     *)
(* signed 64-bit nanosecond count.                                         *)
(*                                                                         *)
(* The harnesses drive the objects the way the repository's unit tests     *)
(* and callers do:                                                         *)
(*   Spec      - one OrderManager (with the venue it owns)                 *)
(*   SpecReply - the same, its reply handler also invoked from outside     *)
(*   SpecVenue - one ExchangeApi used directly, callbacks being lambdas    *)
(*   SpecBot   - one EmaTradingBot (with the OrderManager it owns)         *)
(*   SpecEMA   - one TimeEMA                                               *)
(*   SpecSim   - one Simulator (with the strategy it owns) running Run     *)
(*   SpecMain  - main from the construction of the Simulator on, with      *)
(*               files that may not open and streams that may fail         *)
(*   SpecConfig - main from the loading of the configuration to the first  *)
(*               volume drawn from it; here a double can be not a number   *)
(*   SpecRising - one EmaTradingBot given a rising market                  *)
(*   SpecSignals - one OrderManager given signals alone, with bounds       *)
(*               around or at the flat position                            *)
(***************************************************************************)
EXTENDS Integers, Sequences, FiniteSets, TLC

\* ------------------------------------------------------------------ bounds
MaxOrders == 2      \* orders one venue instance accepts in a run
MaxPos    == 3      \* position bounds are drawn from -MaxPos .. MaxPos
MaxVol    == 4      \* the largest requested volume
MaxPrice  == 2      \* prices are drawn from 1 .. MaxPrice
MaxTicks  == 4      \* ticks one strategy instance is fed in a run
MaxTime   == 3      \* tick timestamps are drawn from 0 .. MaxTime
MaxSteps  == 3      \* steps_count is drawn from 1 .. MaxSteps

\* ------------------------------------------------------ program constants
VolTol == 2         \* 1e-9 of isVolumeEqual, in volume units of 0.5e-9
NsMax  == 7         \* std::chrono::nanoseconds::max(), on the model's scale
\* Finite precision of the filter arithmetic: a smoothed price is held in
\* units of 1/EmaScale of a price unit, alpha in units of 1/AlphaDen, and
\* every result is rounded to the nearest representable value, as a double
\* is (with far fewer bits).
EmaScale == 8
AlphaDen == 16

\* --------------------------------------------------------------- input sets
Prices        == 1..MaxPrice
Volumes       == {-1, 0, 1, 2, MaxVol}   \* requested by a signal
RawVolumes    == {1, MaxVol}             \* of an order given to SendOrder
MinPositions  == {-MaxPos, 1}      \* min_position, any sign is accepted
MaxPositions  == {-1, MaxPos}      \* max_position >= min_position
RejectionPcts == {0, 50, 100}     \* rejection_probability, validated in [0,100]
Draws         == {0, 50}          \* dist(rng_), uniform in [0, 100)
VenueDraws    == {0, 50, 99}      \* the same, for a venue used directly
OrderSide     == {"Buy", "Sell"}
ReplyStatus   == {"Pending", "Executed", "Rejected"}
\* A callback handed to sendOrder is "null" (nullptr), "lambda" (a recording
\* lambda, as in the unit tests) or "om" (OrderManager::HandleRequestReply
\* bound to its manager); a reply status is "Executed" or "Rejected"
\* ("Pending" is never produced by the venue).
TestCallbacks == {"null", "lambda"}
\* (fast_ema, slow_ema) periods, validated slow > fast >= 1.  A period p
\* stands for tau = p / ln 2 time units, so that exp(-dt/tau) = 2^(-dt/p).
EmaPeriods    == {<<1, 2>>, <<1, 3>>}
Timestamps    == 0..MaxTime
EmaTimestamps == (-1)..MaxTime
TickVolumes   == {0, MaxVol}
\* the Simulator's own parameters as validation accepts them:
\* initial_price >= 0, 1 <= min_diff_time < max_diff_time,
\* 0 <= min_volume <= max_volume, steps_count >= 1
InitialPrices == {0, MaxPrice}
DiffTimes     == {<<1, 2>>, <<2, 3>>}
VolumeRanges  == {<<0, 0>>, <<1, MaxVol>>}
AcceptedConfigs ==
  {[initial_price |-> p, min_diff_time |-> d[1], max_diff_time |-> d[2],
    min_volume |-> v[1], max_volume |-> v[2], steps_count |-> n] :
     p \in InitialPrices, d \in DiffTimes, v \in VolumeRanges,
     n \in 1..MaxSteps}
DefaultConfig ==
  [initial_price |-> MaxPrice, min_diff_time |-> 1, max_diff_time |-> 2,
   min_volume |-> 1, max_volume |-> MaxVol, steps_count |-> MaxSteps]
\* the orders handed to a venue that is used directly
TestOrders    == {[side |-> "Buy", price |-> 1, volume |-> 1],
                  [side |-> "Sell", price |-> MaxPrice, volume |-> MaxVol]}

VARIABLES
  \* ExchangeApi
  rejection_percent_, nextId_, pending_events_,
  \* OrderManager
  min_position_, max_position_, orders_, pnl_, current_position_,
  \* OrderLogger: the records handed to writeOrder, in order
  orderLog,
  \* EmaTradingBot and its two TimeEMA filters
  higher_ema_, fast_ema_, slow_ema_,
  \* observation: every sendOrder call, every callback invocation, every
  \* signal the strategy gave to its manager, the number of ticks processed,
  \* and the latest public call with its arguments and result
  sent, delivered, signals, ticks, call,
  \* Simulator: its configuration, the tick it advances, the loop counter of
  \* Run and where Run is
  config_, currentTick_, loop_i, run_pc,
  \* TickLogger: the records handed to writeTick, in order
  tickLog,
  \* the output streams (file_) of the TickLogger and of the OrderLogger
  tick_file_, order_file_,
  \* ConfigManager: the parameter set read from the configuration file
  ini,
  \* observation: the events of the latest public call (of the latest loop
  \* iteration for Run), in the order they happened
  trace

venueVars == <<rejection_percent_, nextId_, pending_events_>>
omVars    == <<min_position_, max_position_, orders_, pnl_, current_position_>>
botVars   == <<higher_ema_, fast_ema_, slow_ema_>>
obsVars   == <<orderLog, sent, delivered, signals, ticks, call, trace>>
simVars   == <<config_, currentTick_, loop_i, run_pc, tickLog>>
fileVars  == <<tick_file_, order_file_>>
vars      == <<venueVars, omVars, botVars, obsVars, simVars, fileVars, ini>>

Abs(x) == IF x < 0 THEN -x ELSE x
Min(a, b) == IF b < a THEN b ELSE a
Last(s) == s[Len(s)]
NoTick == [timestamp |-> 0, price |-> 0, volume |-> 0]
NoCall == [op |-> "none", side |-> "none", price |-> 0, volume |-> 0,
           timestamp |-> 0, cb |-> "none", draw |-> 0, ret |-> 0,
           orders |-> 0, callbacks |-> 0, id |-> 0, status |-> "none",
           factor |-> <<1, 1>>, stamp |-> 0,
           tick_opens |-> TRUE, order_opens |-> TRUE,
           ok |-> TRUE, error |-> ""]

\* ------------------------------------------------------------- Types.h
isVolumeEqual(a, b) == Abs(a - b) < VolTol

\* std::chrono::nanoseconds is a signed integer of fixed width, with values
\* in [-NsMax - 1, NsMax]
NsRange == (-NsMax - 1)..NsMax

\* a difference of two times, reduced to the representable range
wrapNs(x) == ((x + NsMax + 1) % (2 * (NsMax + 1))) - (NsMax + 1)

\* the values a += b can leave in a: the sum, or, when the sum is not
\* representable (signed overflow, undefined), any value
addNs(a, b) == IF a + b \in NsRange THEN {a + b} ELSE NsRange

\* A write to an output stream whose state is not good writes nothing and
\* leaves the stream as it is; the logger then returns an error text.
writeFails(file) == file # "good"

\* an observed event, with the tick it is about if any
Event(ev, tick) == [ev |-> ev, tick |-> tick]
emitOm(om, ev) == [om EXCEPT !.trace = Append(@, Event(ev, NoTick))]
emit(s, ev, tick) == [s EXCEPT !.om.trace = Append(@, Event(ev, tick))]

\* The mutable state of the objects as one value, so that a handler can be
\* written as a function from state to state and handlers can call each other
\* (SendOrder calls sendOrder and poll, poll calls HandleRequestReply):
\*   venue = [nextId, pending]
\*   om = [orders, pnl, position, log, file, trace]
\*   sim = [tick, log, file, i, pc]
\* The event trace of the call starts empty and is carried in the innermost
\* record, om, so that every handler can append to it.
State ==
  [venue     |-> [nextId |-> nextId_, pending |-> pending_events_],
   om        |-> [orders |-> orders_, pnl |-> pnl_,
                  position |-> current_position_, log |-> orderLog,
                  file |-> order_file_, trace |-> <<>>],
   bot       |-> [higher |-> higher_ema_, fast |-> fast_ema_,
                  slow |-> slow_ema_],
   sim       |-> [tick |-> currentTick_, log |-> tickLog,
                  file |-> tick_file_, i |-> loop_i, pc |-> run_pc],
   sent      |-> sent,
   delivered |-> delivered,
   signals   |-> signals]

Install(s) ==
  /\ nextId_' = s.venue.nextId
  /\ pending_events_' = s.venue.pending
  /\ orders_' = s.om.orders
  /\ pnl_' = s.om.pnl
  /\ current_position_' = s.om.position
  /\ orderLog' = s.om.log
  /\ higher_ema_' = s.bot.higher
  /\ fast_ema_' = s.bot.fast
  /\ slow_ema_' = s.bot.slow
  /\ sent' = s.sent
  /\ delivered' = s.delivered
  /\ signals' = s.signals
  /\ trace' = s.om.trace
  /\ currentTick_' = s.sim.tick
  /\ tickLog' = s.sim.log
  /\ loop_i' = s.sim.i
  /\ run_pc' = s.sim.pc
  /\ tick_file_' = s.sim.file
  /\ order_file_' = s.om.file
  /\ UNCHANGED <<rejection_percent_, min_position_, max_position_, config_,
                 ini>>

\* a public call c that takes the objects from State to s: call records c
\* with the number of orders the call submitted to the venue and the number
\* of callbacks invoked during it
Do(s, c, isTick) ==
  /\ Install(s)
  /\ ticks' = IF isTick THEN ticks + 1 ELSE ticks
  /\ call' = [c EXCEPT !.orders = Len(s.sent) - Len(sent),
                       !.callbacks = Len(s.delivered) - Len(delivered)]

\* ------------------------------------------------- OrderManager, replies
\* a total that leaves out the open position's value
getTotalPnL_RealizedOnly(om, currentMarketPrice) == om.pnl

getTotalPnL(om, currentMarketPrice) ==
  om.pnl + currentMarketPrice * om.position

\* fixOrder with the cash leg booked on the wrong side
fixOrder_WrongCashSign(om, side, price, volume) ==
  [om EXCEPT !.pnl = @ + price * volume * (IF side = "Buy" THEN 1 ELSE -1),
             !.position = @ + volume * (IF side = "Buy" THEN 1 ELSE -1)]

\* fixOrder that moves the position and leaves the cash leg out
fixOrder_NoCashLeg(om, side, price, volume) ==
  emitOm([om EXCEPT
            !.position = @ + volume * (IF side = "Buy" THEN 1 ELSE -1)],
         "position_updated")

\* fixOrder that books the cash of a sell but leaves the position to buys
fixOrder_SellKeepsPosition(om, side, price, volume) ==
  emitOm([om EXCEPT
            !.pnl = @ + price * volume * (IF side = "Buy" THEN -1 ELSE 1),
            !.position = @ + volume * (IF side = "Buy" THEN 1 ELSE 0)],
         "position_updated")

fixOrder(om, side, price, volume) ==
  emitOm([om EXCEPT
            !.pnl = @ + price * volume * (IF side = "Buy" THEN -1 ELSE 1),
            !.position = @ + volume * (IF side = "Buy" THEN 1 ELSE -1)],
         "position_updated")

writeOrder(log, side, price, volume, status, error_text, total_pnl) ==
  Append(log, [side |-> side, price |-> price, volume |-> volume,
               status |-> status, error |-> error_text,
               total_pnl |-> total_pnl])

\* HandleRequestReply that forgets to erase the pending entry
HandleRequestReply_NoErase(om, id, reply_status, reply_error) ==
  IF id \notin DOMAIN om.orders THEN om
  ELSE
    LET order == om.orders[id]
        om1   == IF reply_status = "Executed"
                 THEN fixOrder(om, order.side, order.price, order.volume)
                 ELSE om
    IN [om1 EXCEPT !.log =
          writeOrder(@, order.side, order.price, order.volume,
                     reply_status, reply_error,
                     getTotalPnL(om1, order.price))]

\* HandleRequestReply that books the fill whatever the status
HandleRequestReply_FillsRejected(om, id, reply_status, reply_error) ==
  IF id \notin DOMAIN om.orders THEN om
  ELSE
    LET order == om.orders[id]
        om1   == fixOrder(om, order.side, order.price, order.volume)
        om2   == [om1 EXCEPT !.log =
                    writeOrder(@, order.side, order.price, order.volume,
                               reply_status, reply_error,
                               getTotalPnL(om1, order.price))]
    IN [om2 EXCEPT !.orders =
          [k \in (DOMAIN om2.orders) \ {id} |-> om2.orders[k]]]

\* HandleRequestReply that takes the order with orders_[id], which makes a
\* zero order for an identifier that has none
HandleRequestReply_DefaultOrder(om, id, reply_status, reply_error) ==
  LET order == IF id \in DOMAIN om.orders THEN om.orders[id]
               ELSE [side |-> "Buy", price |-> 0, volume |-> 0]
      om1   == IF reply_status = "Executed"
               THEN fixOrder(om, order.side, order.price, order.volume)
               ELSE om
      om2   == [om1 EXCEPT !.log =
                  writeOrder(@, order.side, order.price, order.volume,
                             reply_status, reply_error,
                             getTotalPnL(om1, order.price))]
  IN [om2 EXCEPT !.orders =
        [k \in (DOMAIN om2.orders) \ {id} |-> om2.orders[k]]]

\* HandleRequestReply that writes a log record only for a fill
HandleRequestReply_LogsOnlyExecuted(om, id, reply_status, reply_error) ==
  IF id \notin DOMAIN om.orders THEN om
  ELSE
    LET order == om.orders[id]
        om1   == IF reply_status = "Executed"
                 THEN fixOrder(om, order.side, order.price, order.volume)
                 ELSE om
        om2   == IF reply_status = "Executed"
                 THEN [om1 EXCEPT !.log =
                         writeOrder(@, order.side, order.price, order.volume,
                                    reply_status, reply_error,
                                    getTotalPnL(om1, order.price))]
                 ELSE om1
    IN [om2 EXCEPT !.orders =
          [k \in (DOMAIN om2.orders) \ {id} |-> om2.orders[k]]]

HandleRequestReply(om, id, reply_status, reply_error) ==
  IF id \notin DOMAIN om.orders THEN om
  ELSE
    LET order == om.orders[id]
        om0   == emitOm(om, "reply_handled")
        om1   == IF reply_status = "Executed"
                 THEN fixOrder(om0, order.side, order.price, order.volume)
                 ELSE om0
        om2   == emitOm([om1 EXCEPT !.log =
                           writeOrder(@, order.side, order.price,
                                      order.volume, reply_status, reply_error,
                                      getTotalPnL(om1, order.price))],
                        IF writeFails(om1.file) THEN "order_log_failed"
                        ELSE "order_logged")
    IN [om2 EXCEPT !.orders =
          [k \in (DOMAIN om2.orders) \ {id} |-> om2.orders[k]]]

\* -------------------------------------------------------- ExchangeApi
\* the outcome decided from the draw u = dist(rng_)
\* the comparison taken non-strictly
rejectionDecision_NonStrict(u, rejection_percent) ==
  IF u <= rejection_percent THEN "Rejected" ELSE "Executed"

\* a decision that leaves the order undecided when the draw meets the
\* probability
rejectionDecision_PendingOnTie(u, rejection_percent) ==
  IF u < rejection_percent THEN "Rejected"
  ELSE IF u = rejection_percent THEN "Pending" ELSE "Executed"

rejectionDecision(u, rejection_percent) ==
  IF u < rejection_percent THEN "Rejected" ELSE "Executed"

replyMessage(reply_status) ==
  IF reply_status = "Rejected" THEN "Random rejection" ELSE ""

\* the body of poll's loop for one queued event
\* a poll step that calls the callback without testing it
invokeCallback_NoNullCheck(s, ev) ==
  LET msg == replyMessage(ev.reply_status)
      d   == Append(s.delivered, [id |-> ev.id, status |-> ev.reply_status,
                                  error |-> msg, cb |-> ev.cb])
  IN CASE ev.cb = "om" -> [s EXCEPT !.delivered = d,
                             !.om = HandleRequestReply(@, ev.id,
                                            ev.reply_status, msg)]
       [] OTHER        -> [s EXCEPT !.delivered = d]

\* invokeCallback whose manager callback submits a rejected order again
\* from inside the callback, while poll is going through the queue
invokeCallback_ResendsRejected(s, ev) ==
  LET msg == replyMessage(ev.reply_status)
      d   == Append(s.delivered, [id |-> ev.id, status |-> ev.reply_status,
                                  error |-> msg, cb |-> ev.cb])
      s1  == [s EXCEPT !.delivered = d,
                       !.om = HandleRequestReply(@, ev.id,
                                                 ev.reply_status, msg)]
      id2 == s1.venue.nextId
      st2 == rejectionDecision(0, rejection_percent_)
  IN CASE ev.cb = "null"   -> s
       [] ev.cb = "lambda" -> [s EXCEPT !.delivered = d]
       [] ev.cb = "om"     ->
            IF ev.reply_status = "Rejected" /\ ev.id \in DOMAIN s.om.orders
            THEN [emit(s1, "order_sent", NoTick) EXCEPT
                    !.venue.nextId  = @ + 1,
                    !.venue.pending =
                       Append(@, [id |-> id2, reply_status |-> st2,
                                  cb |-> "om"]),
                    !.sent =
                       Append(@, [id |-> id2,
                                  side |-> s.om.orders[ev.id].side,
                                  price |-> s.om.orders[ev.id].price,
                                  volume |-> s.om.orders[ev.id].volume,
                                  cb |-> "om", status |-> st2])]
            ELSE s1

invokeCallback(s, ev) ==
  LET msg == replyMessage(ev.reply_status)
      d   == Append(s.delivered, [id |-> ev.id, status |-> ev.reply_status,
                                  error |-> msg, cb |-> ev.cb])
  IN CASE ev.cb = "null"   -> s
       [] ev.cb = "lambda" -> [s EXCEPT !.delivered = d]
       [] ev.cb = "om"     -> [s EXCEPT !.delivered = d,
                                 !.om = HandleRequestReply(@, ev.id,
                                                ev.reply_status, msg)]

\* sendOrder that consumes an identifier only for an accepted order
sendOrder_IdOnAccept(s, order, cb, u) ==
  LET current_id == s.venue.nextId
      rp_status  == rejectionDecision(u, rejection_percent_)
  IN [id    |-> current_id,
      state |-> [s EXCEPT
        !.venue.nextId  = IF rp_status = "Executed" THEN @ + 1 ELSE @,
        !.venue.pending = Append(@, [id |-> current_id,
                                     reply_status |-> rp_status, cb |-> cb]),
        !.sent          = Append(@, [id |-> current_id, side |-> order.side,
                                     price |-> order.price,
                                     volume |-> order.volume, cb |-> cb,
                                     status |-> rp_status])]]

\* sendOrder that also runs the callback at once
sendOrder_Eager(s, order, cb, u) ==
  LET current_id == s.venue.nextId
      rp_status  == rejectionDecision(u, rejection_percent_)
      ev         == [id |-> current_id, reply_status |-> rp_status, cb |-> cb]
  IN [id    |-> current_id,
      state |-> invokeCallback(
        [s EXCEPT
          !.venue.nextId  = @ + 1,
          !.venue.pending = Append(@, ev),
          !.sent          = Append(@, [id |-> current_id, side |-> order.side,
                                       price |-> order.price,
                                       volume |-> order.volume, cb |-> cb,
                                       status |-> rp_status])], ev)]

\* sendOrder: take the next identifier, decide the outcome, queue the event;
\* the result is the identifier returned and the state after the call
sendOrder(s, order, cb, u) ==
  LET current_id == s.venue.nextId
      rp_status  == rejectionDecision(u, rejection_percent_)
  IN [id    |-> current_id,
      state |-> [emit(s, "order_sent", NoTick) EXCEPT
        !.venue.nextId  = @ + 1,
        !.venue.pending = Append(@, [id |-> current_id,
                                     reply_status |-> rp_status, cb |-> cb]),
        !.sent          = Append(@, [id |-> current_id, side |-> order.side,
                                     price |-> order.price,
                                     volume |-> order.volume, cb |-> cb,
                                     status |-> rp_status])]]

RECURSIVE pollLoop(_, _)
pollLoop(queue, s) ==
  IF queue = <<>> THEN s
  ELSE pollLoop(Tail(queue), invokeCallback(s, Head(queue)))

\* poll that leaves the queue as it was
poll_NoClear(s) == pollLoop(s.venue.pending, s)

\* poll: run every queued callback in queue order, then clear the queue
poll(s) ==
  [pollLoop(s.venue.pending, emit(s, "venue_polled", NoTick))
     EXCEPT !.venue.pending = <<>>]

\* ------------------------------------------------ OrderManager, requests
\* SendOrder that leaves the reply to a later poll
SendOrder_NoPoll(s, order, u) ==
  LET r  == sendOrder(s, order, "om", u)
      s1 == [r.state EXCEPT !.om.orders =
               [k \in (DOMAIN @) \cup {r.id} |->
                  IF k = r.id THEN order ELSE @[k]]]
  IN [id |-> r.id, state |-> s1]

SendOrder(s, order, u) ==
  LET r  == sendOrder(s, order, "om", u)
      s1 == [r.state EXCEPT !.om.orders =
               [k \in (DOMAIN @) \cup {r.id} |->
                  IF k = r.id THEN order ELSE @[k]]]
  IN [id |-> r.id, state |-> poll(s1)]

\* onBuySignal that submits the requested volume unclamped
onBuySignal_NoClamp(s, price, volume, u) ==
  IF isVolumeEqual(s.om.position, max_position_) THEN s
  ELSE IF volume <= 0 THEN s
       ELSE SendOrder(s, [side |-> "Buy", price |-> price,
                          volume |-> volume], u).state

onBuySignal(s, price, volume, u) ==
  IF isVolumeEqual(s.om.position, max_position_) THEN s
  ELSE
    LET remaining     == max_position_ - s.om.position
        volume_to_buy == Min(volume, remaining)
    IN IF volume_to_buy <= 0 THEN s
       ELSE SendOrder(s, [side |-> "Buy", price |-> price,
                          volume |-> volume_to_buy], u).state

\* onSellSignal that submits whatever volume the clamp leaves
onSellSignal_NoZeroCheck(s, price, volume, u) ==
  IF isVolumeEqual(s.om.position, min_position_) THEN s
  ELSE
    LET room_to_sell   == s.om.position - min_position_
        volume_to_sell == Min(volume, room_to_sell)
    IN SendOrder(s, [side |-> "Sell", price |-> price,
                     volume |-> volume_to_sell], u).state

\* onSellSignal that submits the requested volume unclamped
onSellSignal_NoClamp(s, price, volume, u) ==
  IF isVolumeEqual(s.om.position, min_position_) THEN s
  ELSE IF volume <= 0 THEN s
       ELSE SendOrder(s, [side |-> "Sell", price |-> price,
                          volume |-> volume], u).state

onSellSignal(s, price, volume, u) ==
  IF isVolumeEqual(s.om.position, min_position_) THEN s
  ELSE
    LET room_to_sell   == s.om.position - min_position_
        volume_to_sell == Min(volume, room_to_sell)
    IN IF volume_to_sell <= 0 THEN s
       ELSE SendOrder(s, [side |-> "Sell", price |-> price,
                          volume |-> volume_to_sell], u).state

\* ------------------------------------------------------------- TimeEMA
\* a / b rounded to the nearest integer (b > 0)
RoundDiv(a, b) == (2 * a + b) \div (2 * b)

\* exp(dt_sec * neg_inv_tau_) in units of 1/AlphaDen: the nearest integer to
\* AlphaDen * 2^(-dt/period)
expDecay(dt, period) ==
  CHOOSE r \in 0..AlphaDen :
    /\ (2 * r - 1) ^ period * 2 ^ dt <= (2 * AlphaDen) ^ period
    /\ (2 * r + 1) ^ period * 2 ^ dt > (2 * AlphaDen) ^ period

TimeEMA(period) ==
  [current_ma_price_ |-> 0,
   last_time_update_ |-> [has_value |-> FALSE, value |-> 0],
   period |-> period]

\* update that measures the gap to the stored time without its sign, so
\* that an earlier tick is applied like a later one
update_AbsDeltaT(ema, tick) ==
  IF ~ema.last_time_update_.has_value
  THEN [ema EXCEPT !.current_ma_price_ = tick.price * EmaScale,
                   !.last_time_update_ =
                      [has_value |-> TRUE, value |-> tick.timestamp]]
  ELSE
    LET deltaT == Abs(wrapNs(tick.timestamp - ema.last_time_update_.value))
    IN IF deltaT <= 0 THEN ema
       ELSE
         LET alpha == AlphaDen - expDecay(deltaT, ema.period)
         IN [ema EXCEPT
               !.current_ma_price_ =
                  @ + RoundDiv(alpha * (tick.price * EmaScale - @), AlphaDen),
               !.last_time_update_ =
                  [has_value |-> TRUE, value |-> tick.timestamp]]

\* update that stores the time of a stale tick
update_StoresStaleTime(ema, tick) ==
  IF ~ema.last_time_update_.has_value
  THEN [ema EXCEPT !.current_ma_price_ = tick.price * EmaScale,
                   !.last_time_update_ =
                      [has_value |-> TRUE, value |-> tick.timestamp]]
  ELSE
    LET deltaT == wrapNs(tick.timestamp - ema.last_time_update_.value)
    IN IF deltaT <= 0
       THEN [ema EXCEPT !.last_time_update_ =
                           [has_value |-> TRUE, value |-> tick.timestamp]]
       ELSE
         LET alpha == AlphaDen - expDecay(deltaT, ema.period)
         IN [ema EXCEPT
               !.current_ma_price_ =
                  @ + RoundDiv(alpha * (tick.price * EmaScale - @), AlphaDen),
               !.last_time_update_ =
                  [has_value |-> TRUE, value |-> tick.timestamp]]

\* update without the first-call case: a fresh filter decays from its
\* initial value 0 as if last updated one time unit before time 0
update_NoFirstCase(ema, tick) ==
  LET last   == IF ema.last_time_update_.has_value
                THEN ema.last_time_update_.value ELSE -1
      deltaT == wrapNs(tick.timestamp - last)
  IN IF deltaT <= 0 THEN ema
     ELSE
       LET alpha == AlphaDen - expDecay(deltaT, ema.period)
       IN [ema EXCEPT
             !.current_ma_price_ =
                @ + RoundDiv(alpha * (tick.price * EmaScale - @), AlphaDen),
             !.last_time_update_ =
                [has_value |-> TRUE, value |-> tick.timestamp]]

update(ema, tick) ==
  IF ~ema.last_time_update_.has_value
  THEN [ema EXCEPT !.current_ma_price_ = tick.price * EmaScale,
                   !.last_time_update_ =
                      [has_value |-> TRUE, value |-> tick.timestamp]]
  ELSE
    LET deltaT == wrapNs(tick.timestamp - ema.last_time_update_.value)
    IN IF deltaT <= 0 THEN ema
       ELSE
         LET alpha == AlphaDen - expDecay(deltaT, ema.period)
         IN [ema EXCEPT
               !.current_ma_price_ =
                  @ + RoundDiv(alpha * (tick.price * EmaScale - @), AlphaDen),
               !.last_time_update_ =
                  [has_value |-> TRUE, value |-> tick.timestamp]]

\* the value update returns: the tick's price on the first call, otherwise
\* the filter's value when the call returns
updateReturn(ema, tick) ==
  IF ~ema.last_time_update_.has_value THEN tick.price * EmaScale
  ELSE IF wrapNs(tick.timestamp - ema.last_time_update_.value) <= 0
       THEN ema.current_ma_price_
       ELSE update(ema, tick).current_ma_price_

getCurrentPrice(ema) == ema.current_ma_price_

\* ------------------------------------------------------- EmaTradingBot
\* a signal is the call of onBuySignal or onSellSignal on the manager
signal(s, side, tick) ==
  [s EXCEPT !.signals = Append(@, [side |-> side, price |-> tick.price,
                                   volume |-> tick.volume])]

\* onTick that forgets to record Fast after a buy crossover
onTick_KeepsSlow(s, tick, u) ==
  LET s1 == [s EXCEPT !.bot.slow = update(@, tick),
                      !.bot.fast = update(@, tick)]
  IN IF getCurrentPrice(s1.bot.fast) > getCurrentPrice(s1.bot.slow)
     THEN IF s1.bot.higher = "Slow"
          THEN onBuySignal(signal(s1, "Buy", tick),
                           tick.price, tick.volume, u)
          ELSE [s1 EXCEPT !.bot.higher = "Fast"]
     ELSE LET s2 == IF s1.bot.higher = "Fast"
                    THEN onSellSignal(signal(s1, "Sell", tick),
                                      tick.price, tick.volume, u)
                    ELSE s1
          IN [s2 EXCEPT !.bot.higher = "Slow"]

\* onTick whose comparison counts equal filter values as fast-higher
onTick_EqualIsFast(s, tick, u) ==
  LET s1 == [emit(s, "strategy_tick", tick) EXCEPT
               !.bot.slow = update(@, tick),
               !.bot.fast = update(@, tick)]
  IN IF getCurrentPrice(s1.bot.fast) >= getCurrentPrice(s1.bot.slow)
     THEN LET s2 == IF s1.bot.higher = "Slow"
                    THEN onBuySignal(signal(s1, "Buy", tick),
                                     tick.price, tick.volume, u)
                    ELSE s1
          IN [s2 EXCEPT !.bot.higher = "Fast"]
     ELSE LET s2 == IF s1.bot.higher = "Fast"
                    THEN onSellSignal(signal(s1, "Sell", tick),
                                      tick.price, tick.volume, u)
                    ELSE s1
          IN [s2 EXCEPT !.bot.higher = "Slow"]

\* onTick that signals from the comparison alone, whatever the state was
onTick_NoStateCheck(s, tick, u) ==
  LET s1 == [emit(s, "strategy_tick", tick) EXCEPT
               !.bot.slow = update(@, tick),
               !.bot.fast = update(@, tick)]
  IN IF getCurrentPrice(s1.bot.fast) > getCurrentPrice(s1.bot.slow)
     THEN [onBuySignal(signal(s1, "Buy", tick), tick.price, tick.volume, u)
             EXCEPT !.bot.higher = "Fast"]
     ELSE [onSellSignal(signal(s1, "Sell", tick), tick.price, tick.volume, u)
             EXCEPT !.bot.higher = "Slow"]

\* onTick that takes the undetermined state for Fast when the fast filter is
\* not higher
onTick_SellsFromNone(s, tick, u) ==
  LET s1 == [emit(s, "strategy_tick", tick) EXCEPT
               !.bot.slow = update(@, tick),
               !.bot.fast = update(@, tick)]
  IN IF getCurrentPrice(s1.bot.fast) > getCurrentPrice(s1.bot.slow)
     THEN LET s2 == IF s1.bot.higher = "Slow"
                    THEN onBuySignal(signal(s1, "Buy", tick),
                                     tick.price, tick.volume, u)
                    ELSE s1
          IN [s2 EXCEPT !.bot.higher = "Fast"]
     ELSE LET s2 == IF s1.bot.higher # "Slow"
                    THEN onSellSignal(signal(s1, "Sell", tick),
                                      tick.price, tick.volume, u)
                    ELSE s1
          IN [s2 EXCEPT !.bot.higher = "Slow"]

onTick(s, tick, u) ==
  LET s1 == [emit(s, "strategy_tick", tick) EXCEPT
               !.bot.slow = update(@, tick),
               !.bot.fast = update(@, tick)]
  IN IF getCurrentPrice(s1.bot.fast) > getCurrentPrice(s1.bot.slow)
     THEN LET s2 == IF s1.bot.higher = "Slow"
                    THEN onBuySignal(signal(s1, "Buy", tick),
                                     tick.price, tick.volume, u)
                    ELSE s1
          IN [s2 EXCEPT !.bot.higher = "Fast"]
     ELSE LET s2 == IF s1.bot.higher = "Fast"
                    THEN onSellSignal(signal(s1, "Sell", tick),
                                      tick.price, tick.volume, u)
                    ELSE s1
          IN [s2 EXCEPT !.bot.higher = "Slow"]

\* ----------------------------------------------------------- TickLogger
writeTick(log, tick) == Append(log, tick)

\* ------------------------------------------------------------ Simulator
\* the values time_dist(gen_) can return
getRandomDeltaT(config) == config.min_diff_time..config.max_diff_time

\* the values volume_dist(gen_) can return, the ends of the range
getRandomVolume(config) == {config.min_volume, config.max_volume}

\* exp(drift_term + diffusion_term) as a ratio: Z is any real, so the factor
\* is any positive real; three of them are taken
GbmFactors == {<<1, 2>>, <<1, 1>>, <<2, 1>>}

\* price * factor, rounded to the nearest representable price
calculateGBM(price, factor) == RoundDiv(price * factor[1], factor[2])

\* the loop condition tested once more after the last iteration
loopCondition_Inclusive(i, steps_count) == i <= steps_count

loopCondition(i, steps_count) == i < steps_count

\* a loop body that hands the tick to the strategy before logging it
runStep_StrategyBeforeLog(s, deltaT, timestamp, factor, volume, u) ==
  LET tick == [timestamp |-> timestamp,
               price     |-> calculateGBM(s.sim.tick.price, factor),
               volume    |-> volume]
      s1   == emit([s EXCEPT !.sim.tick = tick], "tick_generated", tick)
      s2   == onTick(s1, tick, u)
      s3   == emit([s2 EXCEPT !.sim.log = writeTick(@, tick)],
                   "tick_logged", tick)
  IN [s3 EXCEPT !.sim.i = @ + 1, !.sim.pc = "running"]

\* a loop body whose volume draw comes from the stream the venue draws
\* from, so that it depends on how many orders the venue has decided
runStep_SharedStream(s, deltaT, timestamp, factor, volume, u) ==
  LET tick == [timestamp |-> timestamp,
               price     |-> calculateGBM(s.sim.tick.price, factor),
               volume    |-> IF s.venue.nextId > 1
                             THEN config_.min_volume + config_.max_volume
                                    - volume
                             ELSE volume]
      s1   == emit([s EXCEPT !.sim.tick = tick], "tick_generated", tick)
      s2   == emit([s1 EXCEPT !.sim.log = writeTick(@, tick)],
                   "tick_logged", tick)
      s3   == onTick(s2, tick, u)
  IN [s3 EXCEPT !.sim.i = @ + 1, !.sim.pc = "running"]

\* a loop body that gives up the iteration's tick when its record could not
\* be written
runStep_SkipsOnLogError(s, deltaT, timestamp, factor, volume, u) ==
  LET tick == [timestamp |-> timestamp,
               price     |-> calculateGBM(s.sim.tick.price, factor),
               volume    |-> volume]
      s1   == emit([s EXCEPT !.sim.tick = tick], "tick_generated", tick)
      s2   == emit([s1 EXCEPT !.sim.log = writeTick(@, tick)],
                   IF writeFails(s1.sim.file) THEN "tick_log_failed"
                   ELSE "tick_logged", tick)
      s3   == IF writeFails(s1.sim.file) THEN s2 ELSE onTick(s2, tick, u)
  IN [s3 EXCEPT !.sim.i = @ + 1, !.sim.pc = "running"]

\* one iteration of Run's loop, the increment of i included; timestamp is
\* what currentTick_.timestamp += deltaT left
runStep(s, deltaT, timestamp, factor, volume, u) ==
  LET tick == [timestamp |-> timestamp,
               price     |-> calculateGBM(s.sim.tick.price, factor),
               volume    |-> volume]
      s1   == emit([s EXCEPT !.sim.tick = tick], "tick_generated", tick)
      s2   == emit([s1 EXCEPT !.sim.log = writeTick(@, tick)],
                   IF writeFails(s1.sim.file) THEN "tick_log_failed"
                   ELSE "tick_logged", tick)
      s3   == onTick(s2, tick, u)
  IN [s3 EXCEPT !.sim.i = @ + 1, !.sim.pc = "running"]

\* -------------------------------------------------------- ConfigManager
\* A double as the parser (std::from_chars) can return it: a number, or the
\* not-a-number value it returns for the text "nan".  Every comparison with
\* a not-a-number operand is false.
Double(v) == [nan |-> FALSE, v |-> v]
NaN == [nan |-> TRUE, v |-> 0]
less(a, b) == ~a.nan /\ ~b.nan /\ a.v < b.v

\* a parameter set that passes validation, and the values each parameter
\* takes in the files read: durations in ns, steps_count unsigned
DefaultIni ==
  [initial_price |-> Double(MaxPrice), time_horizon |-> 1,
   min_diff_time |-> 1, max_diff_time |-> 2, fast_ema |-> 1, slow_ema |-> 2,
   min_volume |-> Double(1), max_volume |-> Double(MaxVol),
   min_position |-> Double(-MaxPos), max_position |-> Double(MaxPos),
   rejection_probability |-> Double(50), steps_count |-> MaxSteps]
IniValues ==
  [initial_price |-> {Double(-1), Double(0), NaN},
   time_horizon  |-> {0, 2},
   min_diff_time |-> {0, 2, 3},
   max_diff_time |-> {1, 3},
   fast_ema      |-> {0, 2},
   slow_ema      |-> {1, 3},
   min_volume    |-> {Double(-1), Double(0), Double(MaxVol),
                      Double(MaxVol + 1), NaN},
   max_volume    |-> {Double(0), Double(1), NaN},
   min_position  |-> {Double(MaxPos), Double(MaxPos + 1), NaN},
   max_position  |-> {Double(-MaxPos), Double(-MaxPos - 1), NaN},
   rejection_probability |-> {Double(-1), Double(0), Double(100),
                              Double(101), NaN},
   steps_count   |-> {0, 1}]

\* the files read: the default with up to two parameters set otherwise
Edited(files) ==
  UNION {{[c EXCEPT ![f] = v] : v \in IniValues[f]} :
           c \in files, f \in DOMAIN IniValues}
IniFiles == {DefaultIni} \cup Edited({DefaultIni}) \cup Edited(Edited({DefaultIni}))

\* Load from the validation on: the checks in the order of the code, the
\* first that fails gives the error returned; else the Config is returned
Load(config) ==
  LET unexpected(text) == [ok |-> FALSE, error |-> text]
  IN CASE less(config.initial_price, Double(0)) ->
            unexpected("initial_price must be >= 0")
       [] config.time_horizon < 1 ->
            unexpected("time_horizon must be >= 1ns")
       [] config.min_diff_time >= config.max_diff_time ->
            unexpected("min_diff_time must be < max_diff_time")
       [] config.min_diff_time < 1 ->
            unexpected("min_diff_time must be >= 1ns")
       [] config.fast_ema < 1 ->
            unexpected("fast_ema must be >= 1ns")
       [] config.slow_ema <= config.fast_ema ->
            unexpected("slow_ema must be > fast_ema")
       [] less(config.max_volume, config.min_volume) ->
            unexpected("max_volume must be >= min_volume")
       [] less(config.min_volume, Double(0)) ->
            unexpected("min_volume must be >= 0")
       [] less(config.max_position, config.min_position) ->
            unexpected("max_position must be >= min_position")
       [] \/ less(config.rejection_probability, Double(0))
          \/ less(Double(100), config.rejection_probability) ->
            unexpected("rejection_probability must be between 0.0 and 100.0")
       [] config.steps_count < 1 ->
            unexpected("steps_count must be >= 1")
       [] OTHER -> [ok |-> TRUE, error |-> ""]

\* what volume_dist(gen_) of getRandomVolume can return for the bounds
\* (a, b) of a Config that Load returned: an end of the range, or, computed
\* as a + (b - a) * u, not a number when a bound is not a number
volume_dist(a, b) == IF a.nan \/ b.nan THEN {NaN} ELSE {a, b}

\* ------------------------------------------------------------------ Init
\* the objects as their constructors leave them, the position bounds taken
\* from the given sets
Constructed(min_positions, max_positions) ==
  /\ rejection_percent_ \in RejectionPcts
  /\ nextId_ = 1
  /\ pending_events_ = <<>>
  /\ min_position_ \in min_positions
  /\ max_position_ \in max_positions
  /\ min_position_ <= max_position_
  /\ orders_ = <<>>
  /\ pnl_ = 0
  /\ current_position_ = 0
  /\ orderLog = <<>>
  /\ higher_ema_ = "None"
  /\ \E p \in EmaPeriods : /\ fast_ema_ = TimeEMA(p[1])
                          /\ slow_ema_ = TimeEMA(p[2])
  /\ sent = <<>>
  /\ delivered = <<>>
  /\ signals = <<>>
  /\ ticks = 0
  /\ call = NoCall
  /\ trace = <<>>
  /\ config_ \in AcceptedConfigs
  /\ currentTick_ = [timestamp |-> 0, price |-> config_.initial_price,
                     volume |-> 0]
  /\ loop_i = 0
  /\ run_pc = "constructed"
  /\ tickLog = <<>>
  /\ tick_file_ = "good"
  /\ order_file_ = "good"
  /\ ini = DefaultIni

Init == Constructed(MinPositions, MaxPositions)

\* --------------------------------------------- actions of the OrderManager
OnBuySignal ==
  /\ nextId_ <= MaxOrders
  /\ \E price \in Prices, volume \in Volumes, u \in Draws :
       Do(onBuySignal(State, price, volume, u),
          [NoCall EXCEPT !.op = "onBuySignal", !.side = "Buy",
                         !.price = price, !.volume = volume, !.draw = u],
          FALSE)

OnSellSignal ==
  /\ nextId_ <= MaxOrders
  /\ \E price \in Prices, volume \in Volumes, u \in Draws :
       Do(onSellSignal(State, price, volume, u),
          [NoCall EXCEPT !.op = "onSellSignal", !.side = "Sell",
                         !.price = price, !.volume = volume, !.draw = u],
          FALSE)

CallSendOrder ==
  /\ nextId_ <= MaxOrders
  /\ \E side \in OrderSide, price \in Prices, volume \in RawVolumes,
        u \in Draws :
       LET r == SendOrder(State, [side |-> side, price |-> price,
                                  volume |-> volume], u)
       IN Do(r.state,
             [NoCall EXCEPT !.op = "SendOrder", !.side = side,
                            !.price = price, !.volume = volume, !.draw = u,
                            !.ret = r.id],
             FALSE)

Next == OnBuySignal \/ OnSellSignal \/ CallSendOrder

\* the manager alone: the strategy's configuration plays no part
InitOM == Init /\ slow_ema_.period = 2 /\ config_ = DefaultConfig

Spec == InitOM /\ [][Next]_vars

\* the manager driven by signals alone, as the strategy drives it, with
\* bounds that have the flat position between them or on one of them
NextSignals == OnBuySignal \/ OnSellSignal

InitSignals ==
  /\ Constructed({-MaxPos, 0}, {0, MaxPos})
  /\ slow_ema_.period = 2
  /\ config_ = DefaultConfig

SpecSignals == InitSignals /\ [][NextSignals]_vars

\* the manager's reply handler invoked for an identifier of the caller's
\* choice, as a handler registered with some venue can be
StrayReply ==
  \E id \in {1, MaxOrders + 1}, reply_status \in ReplyStatus :
    \E om \in {HandleRequestReply(State.om, id, reply_status,
                                  replyMessage(reply_status))} :
      Do([State EXCEPT !.om = om],
         [NoCall EXCEPT !.op = "HandleRequestReply", !.id = id,
                        !.status = reply_status],
         FALSE)

NextReply == Next \/ StrayReply

SpecReply == InitOM /\ [][NextReply]_vars

\* ------------------------------------------ actions of a venue used directly
VenueSendOrder ==
  /\ nextId_ <= MaxOrders
  /\ \E order \in TestOrders, u \in VenueDraws, cb \in TestCallbacks :
       LET r == sendOrder(State, order, cb, u)
       IN Do(r.state,
             [NoCall EXCEPT !.op = "sendOrder", !.side = order.side,
                            !.price = order.price, !.volume = order.volume,
                            !.cb = cb, !.draw = u, !.ret = r.id],
             FALSE)

VenuePoll ==
  \E s \in {poll(State)} :
    Do(s, [NoCall EXCEPT !.op = "poll"], FALSE)

NextVenue == VenueSendOrder \/ VenuePoll

\* the venue alone: the manager's and the strategy's configuration play no
\* part
InitVenue ==
  /\ Init
  /\ min_position_ = -MaxPos
  /\ max_position_ = MaxPos
  /\ slow_ema_.period = 2
  /\ config_ = DefaultConfig

SpecVenue == InitVenue /\ [][NextVenue]_vars

\* --------------------------------------------- actions of the strategy
OnTick ==
  /\ ticks < MaxTicks
  /\ \E timestamp \in Timestamps, price \in Prices, volume \in TickVolumes,
        u \in Draws :
       Do(onTick(State, [timestamp |-> timestamp, price |-> price,
                         volume |-> volume], u),
          [NoCall EXCEPT !.op = "onTick", !.timestamp = timestamp,
                         !.price = price, !.volume = volume, !.draw = u],
          TRUE)

NextBot == OnTick

\* the strategy's manager is given bounds around the flat position
InitBot ==
  /\ Init
  /\ min_position_ = -MaxPos /\ max_position_ = MaxPos
  /\ config_ = DefaultConfig

SpecBot == InitBot /\ [][NextBot]_vars

\* the strategy in a rising market: every tick after the first is later
\* than the tick before it and has a higher price; the times are near each
\* other or as far apart as two tick times can be
RisingTimes  == {0, 1, 2, NsMax}
RisingPrices == 1..(MaxPrice + 1)

OnRisingTick ==
  /\ ticks < MaxTicks
  /\ \E timestamp \in RisingTimes, price \in RisingPrices,
        volume \in TickVolumes, u \in Draws :
       /\ ticks >= 1 => /\ timestamp > call.timestamp
                        /\ price > call.price
       /\ Do(onTick(State, [timestamp |-> timestamp, price |-> price,
                            volume |-> volume], u),
             [NoCall EXCEPT !.op = "onTick", !.timestamp = timestamp,
                            !.price = price, !.volume = volume, !.draw = u],
             TRUE)

NextRising == OnRisingTick

SpecRising == InitBot /\ [][NextRising]_vars

\* ------------------------------------------- actions of the Simulator
\* one iteration of the loop of Run; generated prices are kept up to
\* 2 * MaxPrice
RunStep ==
  /\ run_pc \in {"constructed", "running"}
  /\ loopCondition(loop_i, config_.steps_count)
  /\ \E deltaT \in getRandomDeltaT(config_), factor \in GbmFactors,
        volume \in getRandomVolume(config_), u \in Draws :
       \E timestamp \in addNs(currentTick_.timestamp, deltaT) :
         /\ calculateGBM(currentTick_.price, factor) <= 2 * MaxPrice
         /\ Do(runStep(State, deltaT, timestamp, factor, volume, u),
               [NoCall EXCEPT !.op = "Run", !.timestamp = deltaT,
                              !.stamp = timestamp, !.factor = factor,
                              !.volume = volume, !.draw = u],
               TRUE)

\* the loop condition fails and Run returns
RunReturn ==
  /\ run_pc \in {"constructed", "running"}
  /\ ~loopCondition(loop_i, config_.steps_count)
  /\ Do([State EXCEPT !.sim.pc = "returned"],
        [NoCall EXCEPT !.op = "Run.return"], FALSE)

NextSim == RunStep \/ RunReturn

\* what every step of Run does to the loop counter and the position of Run
RunAdvances ==
  /\ run_pc \in {"constructed", "running"}
  /\ \/ loop_i' = loop_i + 1 /\ run_pc' = "running"
     \/ loop_i' = loop_i /\ run_pc' = "returned"

\* a Simulator with position bounds around the flat position; Run is a loop
\* of a single thread that nothing blocks, so it keeps advancing until it
\* has returned
InitSim ==
  /\ Init
  /\ min_position_ = -MaxPos /\ max_position_ = MaxPos
  /\ rejection_percent_ = 50
  /\ slow_ema_.period = 2

SpecSim ==
  InitSim /\ [][NextSim]_vars /\ WF_<<loop_i, run_pc>>(RunAdvances)

\* ------------------------------------------------- the program, main
\* main constructs the Simulator and calls Run. The constructor builds the
\* TickLogger first and the EmaTradingBot, with its OrderManager and
\* OrderLogger, after it; a logger whose openFile reports an error throws.
\* Before construction the fields carry the values their initialisers give.
openFile(opens) == IF opens THEN "good" ELSE "closed"

\* a constructor whose loggers keep an open error to themselves
Simulator_OpensLazily(s, tick_opens, order_opens) ==
  [s EXCEPT !.sim.file = openFile(tick_opens),
            !.om.file = openFile(order_opens),
            !.sim.pc = "constructed"]

Simulator(s, tick_opens, order_opens) ==
  IF ~tick_opens THEN [s EXCEPT !.sim.pc = "threw"]
  ELSE IF ~order_opens THEN [s EXCEPT !.sim.pc = "threw"]
  ELSE [s EXCEPT !.sim.file = openFile(tick_opens),
                 !.om.file = openFile(order_opens),
                 !.sim.pc = "constructed"]

Construct ==
  /\ run_pc = "start"
  /\ \E tick_opens \in BOOLEAN, order_opens \in BOOLEAN :
       \E s \in {Simulator(State, tick_opens, order_opens)} :
         Do(s, [NoCall EXCEPT !.op = "Simulator",
                              !.tick_opens = tick_opens,
                              !.order_opens = order_opens],
            FALSE)

\* the environment: a device error that makes a stream's writes fail from
\* now on (the stream keeps its error state, nothing clears it)
TickStreamFails ==
  /\ run_pc \in {"constructed", "running"}
  /\ tick_file_ = "good"
  /\ \E s \in {[State EXCEPT !.sim.file = "failed"]} :
       Do(s, [NoCall EXCEPT !.op = "tick stream fails"], FALSE)

OrderStreamFails ==
  /\ run_pc \in {"constructed", "running"}
  /\ order_file_ = "good"
  /\ \E s \in {[State EXCEPT !.om.file = "failed"]} :
       Do(s, [NoCall EXCEPT !.op = "order stream fails"], FALSE)

NextMain ==
  Construct \/ RunStep \/ RunReturn \/ TickStreamFails \/ OrderStreamFails

ProgramStart ==
  /\ rejection_percent_ = 50
  /\ nextId_ = 1
  /\ pending_events_ = <<>>
  /\ min_position_ = -MaxPos
  /\ max_position_ = MaxPos
  /\ orders_ = <<>>
  /\ pnl_ = 0
  /\ current_position_ = 0
  /\ orderLog = <<>>
  /\ higher_ema_ = "None"
  /\ fast_ema_ = TimeEMA(1)
  /\ slow_ema_ = TimeEMA(2)
  /\ sent = <<>>
  /\ delivered = <<>>
  /\ signals = <<>>
  /\ ticks = 0
  /\ call = NoCall
  /\ trace = <<>>
  /\ currentTick_ = [timestamp |-> 0, price |-> config_.initial_price,
                     volume |-> 0]
  /\ loop_i = 0
  /\ run_pc = "start"
  /\ tickLog = <<>>
  /\ tick_file_ = "closed"
  /\ order_file_ = "closed"

InitMain ==
  /\ config_ \in {c \in AcceptedConfigs :
                    /\ c.initial_price = MaxPrice
                    /\ c.min_diff_time = 1
                    /\ c.max_volume = MaxVol
                    /\ c.steps_count = MaxSteps}
  /\ ini = DefaultIni
  /\ ProgramStart

SpecMain == InitMain /\ [][NextMain]_vars

\* ------------------------------------------ the program up to the core
\* main loads the configuration and, when Load returned a Config, gives it
\* to the Simulator, whose getRandomVolume draws from it
CallLoad ==
  /\ run_pc = "start"
  /\ \E r \in {Load(ini)} :
       Do([State EXCEPT !.sim.pc = IF r.ok THEN "loaded" ELSE "rejected"],
          [NoCall EXCEPT !.op = "Load", !.ok = r.ok, !.error = r.error],
          FALSE)

GetRandomVolume ==
  /\ run_pc = "loaded"
  /\ \E volume \in volume_dist(ini.min_volume, ini.max_volume) :
       Do([State EXCEPT !.sim.pc = "drawn"],
          [NoCall EXCEPT !.op = "getRandomVolume", !.ret = volume],
          FALSE)

NextConfig == CallLoad \/ GetRandomVolume

InitConfig ==
  /\ config_ = DefaultConfig
  /\ ini \in IniFiles
  /\ ProgramStart

SpecConfig == InitConfig /\ [][NextConfig]_vars

\* ------------------------------------------- actions of a filter alone
\* fast_ema_ is the filter under test; a tick may carry any time, one before
\* time 0 included
EmaUpdate ==
  /\ ticks < MaxTicks
  /\ \E timestamp \in EmaTimestamps, price \in Prices :
       LET tick == [timestamp |-> timestamp, price |-> price, volume |-> 0]
       IN Do([State EXCEPT !.bot.fast = update(@, tick)],
             [NoCall EXCEPT !.op = "update", !.timestamp = timestamp,
                            !.price = price,
                            !.ret = updateReturn(fast_ema_, tick)],
             TRUE)

NextEMA == EmaUpdate

InitEMA == InitBot /\ rejection_percent_ = 0

SpecEMA == InitEMA /\ [][NextEMA]_vars

\* ====================================================================
\* Properties
\* ====================================================================

\* sums over the orders submitted to the venue that it decided to execute
RECURSIVE ExecVolume(_, _)
ExecVolume(q, side) ==
  IF q = <<>> THEN 0
  ELSE ExecVolume(Tail(q), side)
       + (IF Head(q).status = "Executed" /\ Head(q).side = side
          THEN Head(q).volume ELSE 0)

RECURSIVE ExecNotional(_, _)
ExecNotional(q, side) ==
  IF q = <<>> THEN 0
  ELSE ExecNotional(Tail(q), side)
       + (IF Head(q).status = "Executed" /\ Head(q).side = side
          THEN Head(q).price * Head(q).volume ELSE 0)

\* the step is a call of op
Called(op) == call'.op = op /\ vars' # vars

\* C1: with min_position <= max_position, the manager's position lies in
\* [min_position, max_position] in every reachable state, the initial one
\* included.
C1_PositionWithinBounds ==
  min_position_ <= max_position_ =>
    /\ min_position_ <= current_position_
    /\ current_position_ <= max_position_

\* C2: an order submitted by onBuySignal(price, v) is a Buy at the signalled
\* price with volume min(v, max_position - position) > 0, one submitted by
\* onSellSignal(price, v) is a Sell at that price with volume
\* min(v, position - min_position) > 0; when the minimum is <= 0 nothing is
\* submitted; the logged volume is the clamped one.
C2_SignalStep(op, side, headroom) ==
  Called(op) =>
    LET clamped == Min(call'.volume, headroom)
    IN /\ call'.orders \in {0, 1}
       /\ Len(sent') = Len(sent) + call'.orders
       /\ Len(orderLog') = Len(orderLog) + call'.orders
       /\ clamped <= 0 => call'.orders = 0
       /\ call'.orders = 1 =>
            /\ clamped > 0
            /\ Last(sent').side = side
            /\ Last(sent').price = call'.price
            /\ Last(sent').volume = clamped
            /\ Last(orderLog').side = side
            /\ Last(orderLog').price = call'.price
            /\ Last(orderLog').volume = clamped

C2_SubmittedVolumeIsClamped ==
  [][ /\ C2_SignalStep("onBuySignal", "Buy",
                       max_position_ - current_position_)
      /\ C2_SignalStep("onSellSignal", "Sell",
                       current_position_ - min_position_) ]_vars

\* a buy of more than max_position from flat gave exactly one order, of
\* volume max_position
C2_Witness ==
  /\ call.op = "onBuySignal" /\ call.orders = 1
  /\ Len(orderLog) = 1
  /\ orderLog[1].volume < call.volume
  /\ orderLog[1].status = "Executed"
  /\ current_position_ = max_position_

\* C3: a tick gives a signal exactly when fast > slow after the tick's
\* updates differs from fast > slow after the previous tick's updates
\* (equality counting as slow-higher); the first tick gives none.
C3_SignalIffSignChange ==
  [][ Called("onTick") =>
        LET before == getCurrentPrice(fast_ema_) > getCurrentPrice(slow_ema_)
            after  == getCurrentPrice(fast_ema_') > getCurrentPrice(slow_ema_')
            change == ticks >= 1 /\ before # after
        IN /\ Len(signals') = Len(signals) + (IF change THEN 1 ELSE 0)
           /\ change => Last(signals').side = (IF after THEN "Buy" ELSE "Sell")
    ]_vars

\* four ticks: the first determination, a buy crossover, a tick that keeps
\* the sign, a sell crossover
C3_Witness ==
  /\ ticks = 4
  /\ Len(signals) = 2
  /\ signals[1].side = "Buy" /\ signals[2].side = "Sell"
  /\ call.op = "onTick" /\ higher_ema_ = "Slow"

C5_IdsAreSuccessive ==
  /\ \A i \in 1..Len(sent) : sent[i].id = i
  /\ call.op = "sendOrder" => call.ret = Len(sent)
  /\ nextId_ = Len(sent) + 1

C5_Witness ==
  /\ call.op = "sendOrder" /\ call.ret = 2
  /\ sent[1].status = "Rejected" /\ sent[1].cb = "null"
  /\ sent[2].status = "Executed" /\ sent[2].cb = "lambda"
  /\ Len(pending_events_) = 1

\* the callback invocations poll makes for a queue: one per event with a
\* callback, in queue order
RECURSIVE Invocations(_)
Invocations(queue) ==
  IF queue = <<>> THEN <<>>
  ELSE (IF Head(queue).cb = "null" THEN <<>>
        ELSE << [id |-> Head(queue).id, status |-> Head(queue).reply_status,
                 error |-> replyMessage(Head(queue).reply_status),
                 cb |-> Head(queue).cb] >>)
       \o Invocations(Tail(queue))

InvokedCount(id) == Cardinality({k \in DOMAIN delivered : delivered[k].id = id})
QueuedCount(id) ==
  Cardinality({k \in DOMAIN pending_events_ : pending_events_[k].id = id})

\* C6: poll invokes the callback of every order queued since the previous
\* poll (an order sent with nullptr has none), in submission order, each
\* with its own identifier, and empties the queue; over any sequence of
\* sendOrder and poll calls each callback is either still queued or has been
\* invoked exactly once, never both and never twice.
C6_PollDeliversEachOnce ==
  /\ [][ Called("poll") =>
           /\ delivered' = delivered \o Invocations(pending_events_)
           /\ pending_events_' = <<>> ]_vars
  /\ [](\A i \in 1..Len(sent) :
          IF sent[i].cb = "null"
          THEN InvokedCount(sent[i].id) = 0
          ELSE InvokedCount(sent[i].id) + QueuedCount(sent[i].id) = 1)
  /\ [](\A j, k \in DOMAIN delivered : j < k => delivered[j].id < delivered[k].id)

C6_Witness ==
  /\ call.op = "poll" /\ call.callbacks = 2
  /\ Len(delivered) = 2 /\ pending_events_ = <<>>

\* C7: sendOrder never invokes the callback; a later poll delivers it, with
\* the status decided at submission.
C7_CallbackOnlyFromPoll ==
  /\ [][ Called("sendOrder") =>
           /\ delivered' = delivered
           /\ Len(pending_events_') = Len(pending_events_) + 1
           /\ Last(pending_events_').reply_status = Last(sent').status ]_vars
  /\ [][ delivered' # delivered => call'.op = "poll" ]_vars
  /\ [](\A k \in DOMAIN delivered :
          \E i \in DOMAIN sent : /\ sent[i].id = delivered[k].id
                                 /\ sent[i].status = delivered[k].status)

C7_Witness ==
  /\ call.op = "sendOrder" /\ call.cb = "lambda"
  /\ Len(delivered) = 1 /\ delivered[1].id = 1
  /\ Len(pending_events_) = 1 /\ pending_events_[1].id = 2

\* C8: a Rejected order leaves position and realized PnL unchanged, still
\* gets a log record with status Rejected and the fixed message, and its
\* pending entry is discarded; with rejection probability 100 position and
\* realized PnL keep their initial values.
C8_RejectedChangesNothing ==
  /\ [][ (call'.orders = 1 /\ Len(sent') = Len(sent) + 1
          /\ Last(sent').status = "Rejected") =>
           /\ current_position_' = current_position_
           /\ pnl_' = pnl_
           /\ Len(orderLog') = Len(orderLog) + 1
           /\ Last(orderLog').status = "Rejected"
           /\ Last(orderLog').error = "Random rejection"
           /\ Last(sent').id \notin DOMAIN orders_' ]_vars
  /\ [](rejection_percent_ = 100 => current_position_ = 0 /\ pnl_ = 0)

C8_Witness ==
  /\ rejection_percent_ = 100
  /\ Len(orderLog) = 2
  /\ orderLog[1].status = "Rejected" /\ orderLog[2].status = "Rejected"
  /\ current_position_ = 0 /\ pnl_ = 0

C10_RejectedIffDrawBelow ==
  /\ [][ Called("sendOrder") =>
           (Last(pending_events_').reply_status = "Rejected"
              <=> call'.draw < rejection_percent_) ]_vars
  /\ [](\A k \in DOMAIN delivered :
          /\ delivered[k].status = "Rejected"
               => delivered[k].error = "Random rejection"
          /\ delivered[k].status # "Rejected"
               => delivered[k].status = "Executed" /\ delivered[k].error = ""
          /\ rejection_percent_ = 0 => delivered[k].status = "Executed"
          /\ rejection_percent_ = 100 => delivered[k].status = "Rejected")

C10_Witness ==
  /\ rejection_percent_ = 50
  /\ Len(delivered) = 2
  /\ delivered[1].status = "Rejected" /\ delivered[2].status = "Executed"
  /\ call.op = "poll"

\* C11: a buy signal given while the position equals max_position (within
\* the volume tolerance), a sell signal given while it equals min_position,
\* and any signal whose clamped volume is <= 0, does nothing: no order is
\* sent, no identifier consumed, no log record written, position and
\* realized PnL unchanged.
C11_NoOpStep(op, bound, headroom) ==
  (/\ Called(op)
   /\ \/ Abs(current_position_ - bound) < VolTol
      \/ Min(call'.volume, headroom) <= 0) =>
    /\ call'.orders = 0 /\ call'.callbacks = 0
    /\ sent' = sent
    /\ nextId_' = nextId_
    /\ pending_events_' = pending_events_
    /\ orders_' = orders_
    /\ orderLog' = orderLog
    /\ current_position_' = current_position_
    /\ pnl_' = pnl_

C11_SignalAtBoundIsNoOp ==
  [][ /\ C11_NoOpStep("onBuySignal", max_position_,
                      max_position_ - current_position_)
      /\ C11_NoOpStep("onSellSignal", min_position_,
                      current_position_ - min_position_) ]_vars

\* a sell of a positive volume, given one volume unit above min_position
\* after an executed order, sent nothing
C11_Witness ==
  /\ call.op = "onSellSignal" /\ call.volume > 0 /\ call.orders = 0
  /\ Len(sent) = 1 /\ sent[1].status = "Executed"
  /\ current_position_ = min_position_ + 1
  /\ nextId_ = 2 /\ Len(orderLog) = 1

\* C12: the number of log records equals the number of orders submitted to
\* the venue, which equals the number of identifiers issued.
C12_OneRecordPerOrder ==
  /\ Len(orderLog) = Len(sent)
  /\ Len(sent) = nextId_ - 1
  /\ \A i \in 1..Len(sent) : sent[i].id = i /\ orderLog[i].status = sent[i].status

C12_Witness ==
  /\ nextId_ = 3 /\ Len(orderLog) = 2
  /\ orderLog[1].status = "Rejected" /\ orderLog[2].status = "Executed"
  /\ call.op = "onBuySignal" /\ call.orders = 1

Replies(status) == {k \in DOMAIN delivered : delivered[k].status = status}

\* the orders submitted with a callback that a poll has taken off the queue
PolledWithCallback ==
  {i \in DOMAIN sent : sent[i].cb # "null" /\ QueuedCount(sent[i].id) = 0}

\* C14: the venue delivers to callbacks only Executed or Rejected, never
\* Pending; the number of Executed replies plus the number of Rejected
\* replies equals the number of orders submitted with a non-null callback
\* and polled, each of which has had exactly one reply.
C14_OneTerminalOutcome ==
  /\ \A k \in DOMAIN delivered : delivered[k].status \in {"Executed", "Rejected"}
  /\ Replies("Pending") = {}
  /\ Cardinality(Replies("Executed")) + Cardinality(Replies("Rejected"))
       = Cardinality(PolledWithCallback)
  /\ \A i \in PolledWithCallback : InvokedCount(sent[i].id) = 1

C14_Witness ==
  /\ Len(sent) = 2 /\ pending_events_ = <<>>
  /\ sent[1].cb = "null" /\ sent[2].cb = "lambda"
  /\ Len(delivered) = 1 /\ delivered[1].status = "Rejected"
  /\ delivered[1].id = 2

\* C19: once a filter has been updated, an update with a tick whose time is
\* <= the stored time returns the current value and changes neither the
\* value nor the stored time, whatever the price; an accepted tick stores its
\* own time, so the next dt is measured from the last accepted tick.
C19_StaleTickIsNoOp ==
  [][ (Called("update") /\ fast_ema_.last_time_update_.has_value) =>
        IF call'.timestamp <= fast_ema_.last_time_update_.value
        THEN /\ fast_ema_' = fast_ema_
             /\ call'.ret = fast_ema_.current_ma_price_
        ELSE fast_ema_'.last_time_update_ =
               [has_value |-> TRUE, value |-> call'.timestamp] ]_vars

\* the third tick came with an earlier time and another price than the
\* filter holds
C19_Witness ==
  /\ call.op = "update" /\ ticks = 3
  /\ fast_ema_.last_time_update_.has_value
  /\ call.timestamp < fast_ema_.last_time_update_.value
  /\ call.price * EmaScale # fast_ema_.current_ma_price_
  /\ call.ret = fast_ema_.current_ma_price_

\* C20: the first update of a fresh filter sets the value to the tick's
\* price, stores the tick's time and returns the tick's price, for any tick
\* time, 0 included; a later accepted update moves the value towards the
\* tick's price by the decayed step.
C20_FirstUpdateTakesPrice ==
  [][ Called("update") =>
        IF ~fast_ema_.last_time_update_.has_value
        THEN /\ fast_ema_'.current_ma_price_ = call'.price * EmaScale
             /\ fast_ema_'.last_time_update_ =
                  [has_value |-> TRUE, value |-> call'.timestamp]
             /\ call'.ret = call'.price * EmaScale
        ELSE LET old    == fast_ema_.current_ma_price_
                 target == call'.price * EmaScale
                 new    == fast_ema_'.current_ma_price_
             IN /\ Min(old, target) <= new
                /\ new <= old + target - Min(old, target)
                /\ call'.ret = new ]_vars

C20_Witness ==
  /\ call.op = "update" /\ ticks = 1 /\ call.timestamp = 0
  /\ fast_ema_.last_time_update_ = [has_value |-> TRUE, value |-> 0]
  /\ fast_ema_.current_ma_price_ = MaxPrice * EmaScale
  /\ call.ret = MaxPrice * EmaScale

\* the events of a trace that have the given name, and the names alone
EventsOf(tr, ev) == SelectSeq(tr, LAMBDA e : e.ev = ev)
Names(tr) == [k \in DOMAIN tr |-> tr[k].ev]

\* C15: Run returns, and it returns after exactly steps_count iterations
\* (while the loop condition holds an iteration is possible, else the return
\* is); every iteration
\* generates one tick, writes that tick once to the tick log and forwards it
\* once to the strategy, so the log holds steps_count ticks at the end; the
\* baseline tick held before the first iteration is neither logged nor
\* forwarded.
C15_RunTerminates ==
  /\ [](/\ Len(tickLog) = loop_i /\ ticks = loop_i
        /\ loop_i <= config_.steps_count
        /\ run_pc = "returned" => loop_i = config_.steps_count
        /\ (run_pc # "returned"
              /\ loopCondition(loop_i, config_.steps_count)) =>
             \E factor \in GbmFactors :
               calculateGBM(currentTick_.price, factor) <= 2 * MaxPrice
        /\ run_pc = "constructed" =>
             /\ tickLog = <<>> /\ ticks = 0 /\ trace = <<>>
             /\ currentTick_ = [timestamp |-> 0,
                                price |-> config_.initial_price,
                                volume |-> 0])
  /\ [][ Called("Run") =>
           /\ loop_i' = loop_i + 1
           /\ tickLog' = Append(tickLog, currentTick_')
           /\ EventsOf(trace', "tick_generated")
                = << Event("tick_generated", currentTick_') >>
           /\ EventsOf(trace', "tick_logged")
                = << Event("tick_logged", currentTick_') >>
           /\ EventsOf(trace', "strategy_tick")
                = << Event("strategy_tick", currentTick_') >> ]_vars
  /\ <>(run_pc = "returned")

C15_Witness ==
  /\ run_pc = "returned" /\ call.op = "Run.return"
  /\ config_.steps_count = MaxSteps
  /\ loop_i = MaxSteps /\ Len(tickLog) = MaxSteps /\ ticks = MaxSteps

\* the three event orders of one iteration: no order, an executed order, a
\* rejected order
QuietStep == <<"tick_generated", "tick_logged", "strategy_tick">>
FilledStep ==
  QuietStep \o <<"order_sent", "venue_polled", "reply_handled",
                 "position_updated", "order_logged">>
RejectedStep ==
  QuietStep \o <<"order_sent", "venue_polled", "reply_handled",
                 "order_logged">>

\* C16: within each step the events occur in the order: tick generated,
\* tick logged, strategy processes the tick, then, if an order is sent:
\* order sent, venue polled, reply handled, position/PnL updated (if
\* executed), order logged; order records are written only inside a step,
\* after that step's tick record, so before the next tick is generated.
C16_EventOrder ==
  /\ [][ Called("Run") =>
           /\ Names(trace') \in {QuietStep, FilledStep, RejectedStep}
           /\ Len(orderLog') - Len(orderLog)
                = Len(EventsOf(trace', "order_logged"))
           /\ Len(sent') - Len(sent) = Len(EventsOf(trace', "order_sent"))
           /\ Names(trace') = FilledStep <=>
                (current_position_' # current_position_)
           /\ Names(trace') = RejectedStep =>
                Last(orderLog').status = "Rejected" ]_vars
  /\ [][ orderLog' # orderLog => Called("Run") ]_vars

\* the third step sold after the second step's buy was rejected
C16_Witness ==
  /\ call.op = "Run" /\ loop_i = 3
  /\ Names(trace) = FilledStep
  /\ Len(orderLog) = 2
  /\ orderLog[1].status = "Rejected" /\ orderLog[2].status = "Executed"
  /\ orderLog[2].side = "Sell"

\* C17: each generated tick's time exceeds the previous tick's time (the
\* baseline time 0 for the first) by an increment in
\* [min_diff_time, max_diff_time], so the timestamps strictly increase.
C17_TimestampsIncrease ==
  [][ Called("Run") =>
        LET d == currentTick_'.timestamp - currentTick_.timestamp
        IN /\ config_.min_diff_time <= d /\ d <= config_.max_diff_time
           /\ currentTick_'.timestamp > currentTick_.timestamp ]_vars

\* C18: every generated tick has price > 0, for every accepted
\* configuration and every sequence of draws.
C18_PricesPositive ==
  \A k \in DOMAIN tickLog : tickLog[k].price > 0

\* C21: an update with dt > 0 moves the value toward the tick price without
\* overshooting: the new value lies strictly between the previous value and
\* the tick price when they differ and is unchanged when they are equal.
C21_MovesStrictlyBetween ==
  [][ (/\ Called("update")
       /\ fast_ema_.last_time_update_.has_value
       /\ call'.timestamp > fast_ema_.last_time_update_.value) =>
        LET old    == fast_ema_.current_ma_price_
            target == call'.price * EmaScale
            new    == fast_ema_'.current_ma_price_
        IN IF old = target THEN new = old
           ELSE /\ Min(old, target) < new
                /\ new < old + target - Min(old, target) ]_vars

\* realized PnL and position after the first n submitted orders, from the
\* orders themselves
RealizedAfter(n) ==
  ExecNotional(SubSeq(sent, 1, n), "Sell")
    - ExecNotional(SubSeq(sent, 1, n), "Buy")
PositionAfter(n) ==
  ExecVolume(SubSeq(sent, 1, n), "Buy") - ExecVolume(SubSeq(sent, 1, n), "Sell")

\* C22: the total PnL written in each order-log record equals realized PnL
\* + order price * position, both taken after the order's fill, if any,
\* has been applied.
C22_LoggedTotalPnL ==
  /\ [][ Len(orderLog') = Len(orderLog) + 1 =>
           Last(orderLog').total_pnl
             = pnl_' + Last(orderLog').price * current_position_' ]_vars
  /\ [](\A n \in DOMAIN orderLog :
          n <= Len(sent) =>
            orderLog[n].total_pnl
              = RealizedAfter(n) + sent[n].price * PositionAfter(n))

\* two fills at different prices that leave a position open: the second
\* record's total differs from the realized PnL and is not zero
C22_Witness ==
  /\ Len(orderLog) = 2
  /\ orderLog[1].status = "Executed" /\ orderLog[2].status = "Executed"
  /\ orderLog[1].price # orderLog[2].price
  /\ current_position_ # 0
  /\ orderLog[2].total_pnl # pnl_
  /\ orderLog[2].total_pnl # 0

\* C23: the generated ticks do not depend on venue outcomes.  The tick a
\* step generates is a function of the previous tick and of the step's
\* price-process draws (time increment, factor, volume) alone, whatever the
\* state of the venue, the manager and the strategy; and the same step
\* taken with any other venue draw generates and logs the same tick.  So
\* two runs with the same configuration and the same price-process draws
\* have the same tick sequence.
C23_TicksIgnoreVenue ==
  [][ Called("Run") =>
        /\ call'.stamp \in addNs(currentTick_.timestamp, call'.timestamp)
        /\ currentTick_' =
             [timestamp |-> call'.stamp,
              price     |-> calculateGBM(currentTick_.price, call'.factor),
              volume    |-> call'.volume]
        /\ tickLog' = Append(tickLog, currentTick_')
        /\ \A u \in Draws :
             LET other == runStep(State, call'.timestamp, call'.stamp,
                                  call'.factor, call'.volume, u)
             IN /\ other.sim.tick = currentTick_'
                /\ other.sim.log = tickLog' ]_vars

\* the third tick was generated after the venue had rejected one order and
\* executed another
C23_Witness ==
  /\ call.op = "Run" /\ Len(tickLog) = 3
  /\ Len(sent) = 2
  /\ sent[1].status = "Executed" /\ sent[2].status = "Rejected"
  /\ tickLog[3] = currentTick_
  /\ currentTick_.volume = config_.max_volume
  /\ config_.min_volume < config_.max_volume

\* the same objects with both output streams in their good state
GoodStreams(s) == [s EXCEPT !.sim.file = "good", !.om.file = "good"]

\* C24: log-write failures never change the simulation.  Every iteration of
\* Run leaves the tick, the strategy's state, the position, the realized
\* PnL, the identifiers and the venue's queue exactly as the same iteration
\* with both streams good would; an iteration whose tick record could not be
\* written still hands that tick to the strategy and advances the loop; and
\* a reply whose order record could not be written is still handled in full,
\* the fill applied when the venue executed the order and the pending entry
\* discarded.
C24_LogFailuresChangeNothing ==
  [][ Called("Run") =>
        LET good == runStep(GoodStreams(State), call'.timestamp, call'.stamp,
                            call'.factor, call'.volume, call'.draw)
        IN /\ currentTick_' = good.sim.tick
           /\ tickLog' = good.sim.log
           /\ loop_i' = good.sim.i /\ run_pc' = good.sim.pc
           /\ <<higher_ema_', fast_ema_', slow_ema_'>>
                = <<good.bot.higher, good.bot.fast, good.bot.slow>>
           /\ <<current_position_', pnl_', orders_', orderLog'>>
                = <<good.om.position, good.om.pnl, good.om.orders,
                    good.om.log>>
           /\ <<nextId_', pending_events_'>>
                = <<good.venue.nextId, good.venue.pending>>
           /\ sent' = good.sent /\ signals' = good.signals
           /\ Len(trace') = Len(good.om.trace)
           /\ (writeFails(tick_file_) =>
                 /\ EventsOf(trace', "tick_log_failed")
                      = << Event("tick_log_failed", currentTick_') >>
                 /\ EventsOf(trace', "strategy_tick")
                      = << Event("strategy_tick", currentTick_') >>
                 /\ loop_i' = loop_i + 1)
           /\ (EventsOf(trace', "order_log_failed") # <<>> =>
                 /\ orders_' = <<>>
                 /\ Len(sent') = Len(sent) + 1
                 /\ Len(EventsOf(trace', "position_updated"))
                      = (IF Last(sent').status = "Executed" THEN 1 ELSE 0)
                 /\ (Last(sent').status = "Executed" =>
                       current_position_' # current_position_) ) ]_vars

\* Run has made all its steps although both streams had failed: the last
\* step's tick record and order record were both lost, and the order, which
\* the venue executed, changed the position
C24_Witness ==
  /\ call.op = "Run" /\ loop_i = config_.steps_count
  /\ tick_file_ = "failed" /\ order_file_ = "failed"
  /\ EventsOf(trace, "tick_log_failed") # <<>>
  /\ EventsOf(trace, "order_log_failed") # <<>>
  /\ EventsOf(trace, "position_updated") # <<>>
  /\ orders_ = <<>> /\ current_position_ # 0

C26_SendOrderSubmitsOneResolved ==
  [][ Called("SendOrder") =>
        /\ Len(sent') = Len(sent) + 1
        /\ SubSeq(sent', 1, Len(sent)) = sent
        /\ Last(sent').id = call'.ret
        /\ <<Last(sent').side, Last(sent').price, Last(sent').volume>>
             = <<call'.side, call'.price, call'.volume>>
        /\ call'.ret = nextId_ /\ nextId_' = nextId_ + 1
        /\ call'.ret = Len(sent')
        /\ Last(sent').status \in {"Executed", "Rejected"}
        /\ Len(delivered') = Len(delivered) + 1
        /\ Last(delivered').id = call'.ret
        /\ Len(orderLog') = Len(orderLog) + 1
        /\ Last(orderLog').status = Last(sent').status
        /\ orders_' = <<>> /\ pending_events_' = <<>> ]_vars

\* the second call returned 2 for an order that differs from the first in
\* side, price and volume and that the venue decided differently
C26_Witness ==
  /\ call.op = "SendOrder" /\ call.ret = 2
  /\ Len(sent) = 2 /\ Len(orderLog) = 2
  /\ sent[1].side # sent[2].side
  /\ sent[1].price # sent[2].price
  /\ sent[1].volume # sent[2].volume
  /\ sent[1].status # sent[2].status
  /\ orders_ = <<>> /\ pending_events_ = <<>>

C28_NullCallbackSkipped ==
  [][ /\ (Called("sendOrder") /\ call'.cb = "null" =>
            /\ call'.ret = nextId_ /\ nextId_' = nextId_ + 1
            /\ Len(pending_events_') = Len(pending_events_) + 1
            /\ SubSeq(pending_events_', 1, Len(pending_events_))
                 = pending_events_
            /\ Last(pending_events_').id = call'.ret
            /\ Last(pending_events_').cb = "null"
            /\ delivered' = delivered)
      /\ (Called("poll")
            /\ (\E k \in DOMAIN pending_events_ :
                  pending_events_[k].cb = "null") =>
            LET others == SelectSeq(pending_events_,
                                    LAMBDA ev : ev.cb # "null")
                made   == SubSeq(delivered', Len(delivered) + 1,
                                 Len(delivered'))
            IN /\ SubSeq(delivered', 1, Len(delivered)) = delivered
               /\ Len(made) = Len(others)
               /\ \A k \in DOMAIN others :
                    /\ made[k].id = others[k].id
                    /\ made[k].cb = others[k].cb
                    /\ made[k].status = others[k].reply_status
               /\ pending_events_' = <<>>) ]_vars

\* one poll took an order with a callback and a later one without off the
\* queue and made the one invocation
C28_Witness ==
  /\ call.op = "poll" /\ call.callbacks = 1
  /\ Len(sent) = 2 /\ nextId_ = 3
  /\ sent[1].cb = "lambda" /\ sent[2].cb = "null"
  /\ Len(delivered) = 1 /\ delivered[1].id = 1
  /\ pending_events_ = <<>>

\* a >= b on doubles: false when either is not a number
atLeast(a, b) == ~a.nan /\ ~b.nan /\ a.v >= b.v

\* C29: every generated tick's volume lies in [min_volume, max_volume] of
\* the configuration the generator was given.
C29_VolumeInRange ==
  call.op = "getRandomVolume" =>
    /\ atLeast(call.ret, ini.min_volume)
    /\ atLeast(ini.max_volume, call.ret)

\* the conditions a returned Config is said to satisfy
Satisfies(config) ==
  /\ atLeast(config.initial_price, Double(0))
  /\ config.time_horizon >= 1
  /\ 1 <= config.min_diff_time
  /\ config.min_diff_time < config.max_diff_time
  /\ config.fast_ema >= 1
  /\ config.slow_ema > config.fast_ema
  /\ atLeast(config.min_volume, Double(0))
  /\ atLeast(config.max_volume, config.min_volume)
  /\ atLeast(config.max_position, config.min_position)
  /\ atLeast(config.rejection_probability, Double(0))
  /\ atLeast(Double(100), config.rejection_probability)
  /\ config.steps_count >= 1

\* C30: Load returns a Config only if the parameter set satisfies all the
\* conditions, and returns an error and no Config if any is violated.
C30_LoadReturnsOnlyValid ==
  call.op = "Load" =>
    /\ call.ok => Satisfies(ini)
    /\ ~Satisfies(ini) => ~call.ok /\ call.error # ""

\* C31: before the first tick the strategy state is None; after every tick
\* it is Fast or Slow, and it is Fast exactly when the fast filter's value is
\* strictly greater than the slow filter's value (equal values count as
\* Slow); no tick takes the state back to None.
C31_StateFollowsComparison ==
  /\ [](IF ticks = 0 THEN higher_ema_ = "None"
        ELSE /\ higher_ema_ \in {"Fast", "Slow"}
             /\ (higher_ema_ = "Fast")
                  <=> (getCurrentPrice(fast_ema_)
                         > getCurrentPrice(slow_ema_)))
  /\ [][ Called("onTick") =>
           /\ higher_ema_' # "None"
           /\ higher_ema_' =
                (IF getCurrentPrice(fast_ema_') > getCurrentPrice(slow_ema_')
                 THEN "Fast" ELSE "Slow") ]_vars

\* after a buy crossover the two filters met again at one value, and the
\* tick at which they met gave the sell signal and left the state Slow
C31_Witness ==
  /\ call.op = "onTick" /\ ticks >= 3
  /\ Len(signals) = 2 /\ signals[2].side = "Sell"
  /\ getCurrentPrice(fast_ema_) = getCurrentPrice(slow_ema_)
  /\ higher_ema_ = "Slow"

\* C32: a fresh strategy fed ticks with strictly increasing times and
\* strictly increasing prices gives a buy signal on the second tick and no
\* other signal for as long as the prices keep rising: after the first tick
\* there is no signal, and from the second tick on the signals given are
\* the one buy of the second tick.
C32_RisingMarketBuysOnce ==
  /\ ticks <= 1 => signals = <<>>
  /\ ticks >= 2 => /\ Len(signals) = 1
                   /\ signals[1].side = "Buy"
                   /\ higher_ema_ = "Fast"

C34_SignalsAlternate ==
  /\ [][ Called("onTick") =>
           /\ Len(signals') \in {Len(signals), Len(signals) + 1}
           /\ SubSeq(signals', 1, Len(signals)) = signals
           /\ (Len(signals') > Len(signals) /\ signals # <<>> =>
                 Last(signals').side # Last(signals).side) ]_vars
  /\ [](\A k \in 1..(Len(signals) - 1) :
          signals[k].side # signals[k + 1].side)

\* four ticks gave a buy, a sell and a buy again
C34_Witness ==
  /\ call.op = "onTick"
  /\ Len(signals) = 3
  /\ signals[1].side = "Buy" /\ signals[2].side = "Sell"
  /\ signals[3].side = "Buy"
  /\ higher_ema_ = "Fast"

\* C35: the first tick a fresh strategy processes sets both filters to the
\* tick's price, leaves the state Slow and gives no signal; so the first
\* signal a strategy ever gives is a buy, and every sell signal has a buy
\* signal before it.
C35_FirstTickLeavesSlow ==
  /\ [][ (Called("onTick") /\ ticks = 0) =>
           /\ higher_ema_ = "None" /\ higher_ema_' = "Slow"
           /\ getCurrentPrice(fast_ema_') = call'.price * EmaScale
           /\ getCurrentPrice(slow_ema_') = call'.price * EmaScale
           /\ signals' = <<>> /\ sent' = <<>> ]_vars
  /\ [](/\ (ticks = 1 => (higher_ema_ = "Slow" /\ signals = <<>>))
         /\ (signals # <<>> => signals[1].side = "Buy")
         /\ \A k \in DOMAIN signals :
              signals[k].side = "Sell" =>
                \E j \in 1..(k - 1) : signals[j].side = "Buy")

\* the first tick, at the highest price and a time after 0, has been
\* processed: both filters hold its price and the state is Slow
C35_Witness ==
  /\ ticks = 1 /\ call.op = "onTick"
  /\ call.price = MaxPrice /\ call.timestamp > 0
  /\ getCurrentPrice(fast_ema_) = getCurrentPrice(slow_ema_)
  /\ getCurrentPrice(fast_ema_) = MaxPrice * EmaScale
  /\ higher_ema_ = "Slow" /\ signals = <<>>

\* C36: a tick that the strategy gets after its first tick, with a time not
\* later than the time of the tick it processed before, changes neither
\* filter nor the strategy's state and gives no signal and no order,
\* whatever its price and volume.
C36_StaleTickChangesNothing ==
  [][ (Called("onTick") /\ ticks >= 1 /\ call'.timestamp <= call.timestamp) =>
        /\ fast_ema_' = fast_ema_ /\ slow_ema_' = slow_ema_
        /\ higher_ema_' = higher_ema_
        /\ signals' = signals /\ sent' = sent
        /\ orderLog' = orderLog
        /\ current_position_' = current_position_ /\ pnl_' = pnl_ ]_vars

\* after a buy signal the third tick came with an earlier time, a volume and
\* a price below the slow filter's value, and the state is still Fast
C36_Witness ==
  /\ call.op = "onTick" /\ ticks = 3
  /\ call.timestamp < fast_ema_.last_time_update_.value
  /\ call.timestamp < slow_ema_.last_time_update_.value
  /\ call.price * EmaScale < getCurrentPrice(slow_ema_)
  /\ call.volume > 0
  /\ higher_ema_ = "Fast" /\ Len(signals) = 1

\* the manager's state after the operation of the step's call, had the
\* venue drawn u
SameCallWithDraw(u) ==
  IF call'.op = "onBuySignal"
  THEN onBuySignal(State, call'.price, call'.volume, u)
  ELSE IF call'.op = "onSellSignal"
  THEN onSellSignal(State, call'.price, call'.volume, u)
  ELSE SendOrder(State, [side |-> call'.side, price |-> call'.price,
                         volume |-> call'.volume], u).state

Places(tr, ev) == {k \in DOMAIN tr : tr[k].ev = ev}

\* C38: with orders submitted through the manager alone, the venue's queue
\* is empty whenever a manager operation returns, and an operation queues
\* at most one event on the empty queue, so the queue never holds more than
\* one; the event is queued before poll starts, and a reply is handled
\* inside poll without any order being sent, so that nothing is queued
\* while poll goes through the queue.
C38_QueueHoldsAtMostOne ==
  /\ [](pending_events_ = <<>>)
  /\ [][ LET sends   == Places(trace', "order_sent")
             polls   == Places(trace', "venue_polled")
             replies == Places(trace', "reply_handled")
         IN /\ Len(sent') - Len(sent) = Cardinality(sends)
            /\ Len(pending_events_) + Cardinality(sends) <= 1
            /\ Cardinality(polls) = Cardinality(sends)
            /\ Cardinality(replies) = Cardinality(sends)
            /\ \A k \in sends : \A j \in polls : k < j
            /\ \A r \in replies : \E j \in polls : j < r ]_vars

\* the second order of a manager went through a sell signal and was
\* rejected: one event was queued, poll handled its reply, and the queue is
\* empty again
C38_Witness ==
  /\ call.op = "onSellSignal" /\ Len(sent) = 2
  /\ sent[2].status = "Rejected" /\ sent[2].cb = "om"
  /\ Names(trace) = <<"order_sent", "venue_polled", "reply_handled",
                      "order_logged">>
  /\ Len(delivered) = 2 /\ pending_events_ = <<>>

====
